---- MODULE Spec2Model ----
(***************************************************************************)
(* Staff directory CLI: the Employee record and its validation             *)
(* (models.py), the employees table with its unique_employee constraint,   *)
(* single-record creation, the batch loader and the sample-data generator  *)
(* (database.py), and the mode 2 entry point (main.py).                    *)
(*                                                                         *)
(* Representation.  A full_name is a sequence of one-character strings.    *)
(* A date is <<year, month, day>>; a missing date (Python None) is <<>>.   *)
(* A missing gender (Python None) is the token None.  The table is a set   *)
(* of rows [id, full_name, birth_date, gender]; the rows a session has     *)
(* written but not committed are kept apart in pending.  An index is a     *)
(* record [name, columns].                                                 *)
(***************************************************************************)
EXTENDS Integers, Sequences, FiniteSets, TLC

VARIABLES
    today,               \* date.today() of this run
    rows,                \* committed rows of table employees
    pending,             \* rows written by the open transaction, uncommitted
    pc,                  \* position: idle, or inside bulk_insert_employees
    employees,           \* bulk_insert_employees: argument employees
    batch_size,          \* bulk_insert_employees: argument batch_size
    i,                   \* bulk_insert_employees: loop variable i
    k,                   \* fallback loop: index of db_emp in db_employees
    inserted_count,      \* bulk_insert_employees: inserted_count
    successful_in_batch, \* bulk_insert_employees: successful_in_batch
    result,              \* outcome of the last finished call
    hist,                \* observations of the current/last call (history)
    gen,                 \* state of generate_sample_data
    val,                 \* last Employee.validate() input and outcome
    indexes,             \* the indexes of table employees
    out                  \* what the last listing, query or age returned

vars == <<today, rows, pending, pc, employees, batch_size, i, k,
          inserted_count, successful_in_batch, result, hist, gen, val,
          indexes, out>>

-----------------------------------------------------------------------------
(* Bounds of the model *)

MaxLen     == 3      \* longest employees list handed to bulk_insert_employees

-----------------------------------------------------------------------------
(* Dates *)

None   == "None"
NoDate == <<>>

IsLeap(y) == (y % 4 = 0 /\ y % 100 # 0) \/ y % 400 = 0

\* a < b on dates (datetime.date ordering)
DateLT(a, b) ==
    \/ a[1] < b[1]
    \/ a[1] = b[1] /\ a[2] < b[2]
    \/ a[1] = b[1] /\ a[2] = b[2] /\ a[3] < b[3]

\* date.replace(year=y): raises ValueError for Feb 29 in a non-leap year
ReplaceRaises(d, y) == d[2] = 2 /\ d[3] = 29 /\ ~IsLeap(y)
replace_year(d, y) == <<y, d[2], d[3]>>

-----------------------------------------------------------------------------
(* Strings *)

Min(a, b) == IF a < b THEN a ELSE b

Whitespace == {" "}

\* the positions of s that hold no whitespace
Inked(s) == {j \in 1..Len(s) : s[j] \notin Whitespace}

\* s without its leading whitespace
lstrip(s) ==
    IF Inked(s) = {} THEN <<>>
    ELSE SubSeq(s, CHOOSE j \in Inked(s) : \A j2 \in Inked(s) : j <= j2, Len(s))

\* s without its trailing whitespace
rstrip(s) ==
    IF Inked(s) = {} THEN <<>>
    ELSE SubSeq(s, 1, CHOOSE j \in Inked(s) : \A j2 \in Inked(s) : j2 <= j)

\* str.strip()
strip(s) == rstrip(lstrip(s))

Rep(c, n) == [j \in 1..n |-> c]

\* the code point of a character
ord(c) ==
    CASE c = " " -> 32 [] c = "%" -> 37 [] c = "A" -> 65 [] c = "F" -> 70
      [] c = "I" -> 73 [] c = "M" -> 77 [] c = "N" -> 78 [] c = "P" -> 80
      [] c = "a" -> 97 [] c = "f" -> 102 [] c = "p" -> 112

\* a <= b on strings: byte by byte, a prefix before what extends it (the
\* BINARY collation of ORDER BY)
StrLE(a, b) ==
    \/ \E j \in 1..Min(Len(a), Len(b)) :
           /\ \A j2 \in 1..(j - 1) : a[j2] = b[j2]
           /\ ord(a[j]) < ord(b[j])
    \/ /\ Len(a) <= Len(b)
       /\ \A j \in 1..Len(a) : a[j] = b[j]

\* LIKE compares ASCII letters without regard to case
fold(c) ==
    CASE c = "a" -> "A" [] c = "f" -> "F" [] c = "p" -> "P" [] OTHER -> c

\* s LIKE pattern: % stands for any run of characters, also the empty one
RECURSIVE like(_, _)
like(s, pattern) ==
    IF pattern = <<>> THEN s = <<>>
    ELSE IF Head(pattern) = "%"
    THEN \/ like(s, Tail(pattern))
         \/ s # <<>> /\ like(Tail(s), pattern)
    ELSE /\ s # <<>>
         /\ fold(Head(s)) = fold(Head(pattern))
         /\ like(Tail(s), Tail(pattern))

DigitChars == <<"0", "1", "2", "3", "4", "5", "6", "7", "8", "9">>

\* n in w digits, zeros in front
Zfill(n, w) == [j \in 1..w |-> DigitChars[((n \div (10 ^ (w - j))) % 10) + 1]]

\* date.strftime('%Y-%m-%d'), for a year of four digits
strftime(d) == Zfill(d[1], 4) \o <<"-">> \o Zfill(d[2], 2) \o <<"-">> \o Zfill(d[3], 2)

-----------------------------------------------------------------------------
(* Employee (models.py) *)

Employee(full_name, birth_date, gender) ==
    [full_name |-> full_name, birth_date |-> birth_date, gender |-> gender]

MaxNameLen   == 200
MaxAgeYears  == 150
valid_genders == {"Male", "Female"}

ErrNameEmpty == "Full name cannot be empty"
ErrNameLong  == "Full name too long (max 200 characters)"
ErrBirthReq  == "Birth date is required"
ErrBirthFut  == "Birth date cannot be in the future"
ErrBirthPast == "Birth date seems too far in the past"
ErrGender    == "Gender must be one of: Male, Female"
ErrReplace   == "day is out of range for month"

name_errors(e) ==
    IF Len(e.full_name) = 0 \/ Len(strip(e.full_name)) = 0 THEN {ErrNameEmpty}
    ELSE IF Len(e.full_name) > MaxNameLen THEN {ErrNameLong}
    ELSE {}

birth_errors(e, now) ==
    IF e.birth_date = NoDate THEN {ErrBirthReq}
    ELSE (IF DateLT(now, e.birth_date) THEN {ErrBirthFut} ELSE {})
         \cup (IF DateLT(e.birth_date, replace_year(now, now[1] - MaxAgeYears))
               THEN {ErrBirthPast} ELSE {})

gender_errors(e) == IF e.gender \notin valid_genders THEN {ErrGender} ELSE {}

\* Employee.validate(): the set of messages of the ValueError it raises, {} when
\* it returns normally.  The computation of min_birth_date raises its own
\* ValueError on a leap day, before the gender check and the final raise.
validate(e, now) ==
    IF e.birth_date # NoDate /\ ReplaceRaises(now, now[1] - MaxAgeYears)
    THEN {ErrReplace}
    ELSE name_errors(e) \cup birth_errors(e, now) \cup gender_errors(e)

\* the difference of the two years, whatever the month and the day
calculate_age_by_year(e, now) == now[1] - e.birth_date[1]

\* Employee.calculate_age(), with date.today() = now
calculate_age(e, now) ==
    LET age == now[1] - e.birth_date[1] IN
    IF \/ now[2] < e.birth_date[2]
       \/ now[2] = e.birth_date[2] /\ now[3] < e.birth_date[3]
    THEN age - 1
    ELSE age

-----------------------------------------------------------------------------
(* Table employees (models.py, class EmployeeDB) *)

EmployeeDB(id, e) ==
    [id |-> id, full_name |-> e.full_name, birth_date |-> e.birth_date,
     gender |-> e.gender]

Key(r) == <<r.full_name, r.birth_date>>

\* the constraint declared over full_name alone
unique_employee_name_only(tbl, e) == \E x \in tbl : x.full_name = e.full_name

\* no constraint declared
unique_employee_absent(tbl, e) == FALSE

\* UniqueConstraint('full_name', 'birth_date', name='unique_employee'):
\* TRUE when inserting e into tbl would violate it
unique_employee(tbl, e) == \E x \in tbl : Key(x) = Key(e)

\* nullable=False on birth_date and gender: TRUE when e violates it
not_null_violated(e) == e.birth_date = NoDate \/ e.gender = None

\* id: primary key, autoincrement
NextId(tbl) ==
    IF tbl = {} THEN 1
    ELSE 1 + (CHOOSE m \in {x.id : x \in tbl} : \A x \in tbl : x.id <= m)

Ok        == "ok"
ErrUnique == "IntegrityError: UNIQUE constraint failed"
ErrNull   == "IntegrityError: NOT NULL constraint failed"

\* what the store answers to INSERT of e into a table that holds tbl
insert_error(tbl, e) ==
    IF not_null_violated(e) THEN ErrNull
    ELSE IF unique_employee(tbl, e) THEN ErrUnique
    ELSE Ok

\* a rollback that undoes nothing
rollback_keep(written) == written

\* session.rollback(): what is left of the transaction's writes
rollback(written) == {}

\* session.commit(): the table once the transaction's writes are committed
commit(tbl, written) == tbl \cup written

\* the existence query filtering on full_name alone
employee_exists_by_name(tbl, full_name, birth_date) ==
    \E x \in tbl : x.full_name = full_name

\* DatabaseManager.employee_exists
employee_exists(tbl, full_name, birth_date) ==
    \E x \in tbl : x.full_name = full_name /\ x.birth_date = birth_date

\* DatabaseManager._is_unique_constraint_error
is_unique_constraint_error(err) == err = ErrUnique

Index(name, columns) == [name |-> name, columns |-> columns]

\* Base.metadata.create_all: the table comes with the index that enforces
\* unique_employee
create_tables == {Index("sqlite_autoindex_employees_1", <<"full_name", "birth_date">>)}

-----------------------------------------------------------------------------
(* Outcomes of a call *)

NoEmp == Employee(<<>>, NoDate, None)

Result(op, outcome, id, emp, before, fault) ==
    [op |-> op, outcome |-> outcome, id |-> id, emp |-> emp,
     before |-> before, fault |-> fault]

NoResult == Result("none", "none", 0, NoEmp, {}, FALSE)

Returned        == "returned"
ValidationError == "ValueError: validation"
DuplicateError  == "ValueError: already exists"
DuplicateErrorDb == "ValueError: already exists (database constraint)"
IntegrityError  == "IntegrityError"
CreateFailed    == "Exception: Failed to create employee"
BulkFailed      == "Exception: Error during bulk insert"

\* rows_call, rows_batch: the table when the call / the current batch started;
\* start, batch: i and the batch of the current batch; path: how the batch was
\* stored; skipped: records of the batch the fallback skipped; attempted:
\* records handled so far; caught: the rejections the two IntegrityError
\* handlers caught; committed: the rows of the transactions committed so far
NoHist ==
    [rows_call |-> {}, rows_batch |-> {}, start |-> 0, batch |-> <<>>,
     path |-> "none", skipped |-> 0, attempted |-> 0, caught |-> {},
     committed |-> {}]

GenOff ==
    [pc |-> "off", i |-> 0, generated_count |-> 0, all_employees |-> <<>>,
     seen_combinations |-> {}, target_employees |-> <<>>, t |-> 0,
     exhausted |-> FALSE]

NoVal == [emp |-> NoEmp, errors |-> {}, done |-> FALSE]

\* op: the operation that returned; ret: the list it returned, or the age in
\* a one-element list; indexes: the indexes it found
NoOut == [op |-> "none", ret |-> <<>>, indexes |-> {}]

-----------------------------------------------------------------------------
(* Inputs of the store model *)

NameP  == <<"P", " ", "a">>
NameF  == <<"F", " ", "a">>
NameFx == <<"F", "a">>

D1 == <<1990, 1, 1>>
D2 == <<1985, 5, 5>>

Todays == {<<2026, 11, 3>>, <<2024, 2, 29>>}

\* what a load can be handed: two records with different keys and one that
\* violates NOT NULL
Staff ==
    {Employee(NameFx, D1, "Male"), Employee(NameF, D1, "Male"),
     Employee(NameFx, D2, None)}

\* what mode 2 can be given on the command line (gender is any string): a
\* record with the key of a Staff record and another gender, one with the name
\* of a Staff record and another date, and one with a gender validate rejects
Mode2Inputs ==
    {Employee(NameF, D1, "Female"), Employee(NameFx, D2, "Female"),
     Employee(NameP, D1, "male")}

BatchSizes == {-1, 0, 2, 1000}

SeqsUpTo(S, n) == UNION {[1..m -> S] : m \in 0..n}

-----------------------------------------------------------------------------
(* Mode 2: create one employee (main.py mode_2, database.py create_employee) *)

\* DatabaseManager.create_employee on a table holding tbl; fault: the store
\* fails the commit for a reason that is no IntegrityError (connectivity).
\* Yields the table afterwards, the outcome, and the id returned (0: none).
create_employee(tbl, e, fault) ==
    IF employee_exists(tbl, e.full_name, e.birth_date)
    THEN [rows |-> tbl, outcome |-> DuplicateError, id |-> 0]
    ELSE IF insert_error(tbl, e) # Ok
    THEN [rows |-> tbl,
          outcome |-> IF is_unique_constraint_error(insert_error(tbl, e))
                      THEN DuplicateErrorDb ELSE IntegrityError,
          id |-> 0]
    ELSE IF fault
    THEN [rows |-> tbl, outcome |-> CreateFailed, id |-> 0]
    ELSE [rows |-> tbl \cup {EmployeeDB(NextId(tbl), e)},
          outcome |-> Returned, id |-> NextId(tbl)]

\* mode_2: Employee.from_command_line (validate) and then create_employee;
\* every error is caught and printed.  The parsed birth date is the input.
mode_2(e, fault) ==
    /\ pc = "idle"
    /\ gen.pc = "off"
    /\ val' = [emp |-> e, errors |-> validate(e, today), done |-> TRUE]
    /\ IF validate(e, today) # {}
       THEN /\ result' = Result("create", ValidationError, 0, e, rows, FALSE)
            /\ rows' = rows
       ELSE LET r == create_employee(rows, e, fault) IN
            /\ result' = Result("create", r.outcome, r.id, e, rows, fault)
            /\ rows' = r.rows
    /\ pc' = "done"
    /\ UNCHANGED <<today, indexes, out, pending, employees, batch_size, i, k,
                   inserted_count, successful_in_batch, hist, gen>>

-----------------------------------------------------------------------------
(* bulk_insert_employees (database.py) *)

default_batch_size == 1000

total_employees == Len(employees)

\* batch = employees[i:i + batch_size]
Batch == SubSeq(employees, i + 1, Min(i + batch_size, total_employees))

\* session.bulk_save_objects(db_employees): the rows are written one after the
\* other inside the open transaction until the store rejects one.
\* written: the rows written; err: Ok or the rejection.
RECURSIVE bulk_save_objects(_, _, _)
bulk_save_objects(tbl, written, db_employees) ==
    IF db_employees = <<>> THEN [written |-> written, err |-> Ok]
    ELSE LET e == Head(db_employees)
             err == insert_error(tbl \cup written, e) IN
         IF err # Ok THEN [written |-> written, err |-> err]
         ELSE bulk_save_objects(
                  tbl, written \cup {EmployeeDB(NextId(tbl \cup written), e)},
                  Tail(db_employees))

\* the first q rows a bulk save wrote
FirstWritten(tbl, written, q) == {x \in written : x.id < NextId(tbl) + q}

\* the call itself: "if not employees: return", then the counters
bulk_insert_employees(emps, bs) ==
    /\ pc = "idle"
    /\ employees' = emps
    /\ batch_size' = bs
    /\ i' = 0
    /\ k' = 0
    /\ inserted_count' = 0
    /\ successful_in_batch' = 0
    /\ hist' = [NoHist EXCEPT !.rows_call = rows, !.rows_batch = rows]
    /\ IF emps = <<>>
       THEN /\ pc' = "done"
            /\ result' = Result("bulk", Returned, 0, NoEmp, rows, FALSE)
       ELSE /\ pc' = "for"
            /\ result' = Result("bulk", "running", 0, NoEmp, rows, FALSE)
    /\ UNCHANGED <<today, indexes, out, rows, pending, val>>

\* a call from outside, with any list and any batch size
CallBulkInsert ==
    /\ gen.pc = "off"
    /\ \E emps \in SeqsUpTo(Staff, MaxLen), bs \in BatchSizes :
           bulk_insert_employees(emps, bs)
    /\ UNCHANGED gen

\* for i in range(0, total_employees, batch_size): a step of 0 raises
\* ValueError inside the outer try, a negative step gives an empty range
ForBatch ==
    /\ pc = "for"
    /\ IF batch_size = 0
       THEN /\ pc' = "except"
            /\ UNCHANGED <<result, hist>>
       ELSE IF batch_size > 0 /\ i < total_employees
       THEN /\ pc' = "batch"
            /\ hist' = [hist EXCEPT !.rows_batch = rows, !.start = i,
                                    !.batch = Batch, !.path = "none",
                                    !.skipped = 0]
            /\ UNCHANGED result
       ELSE /\ pc' = "done"
            /\ result' = [result EXCEPT !.outcome = Returned]
            /\ UNCHANGED hist
    /\ UNCHANGED <<today, indexes, out, rows, pending, employees, batch_size, i, k,
                   inserted_count, successful_in_batch, gen, val>>

\* try: bulk_save_objects; commit; inserted_count += len(db_employees);
\* then the progress line and the next i
BulkSaveCommit ==
    /\ pc = "batch"
    /\ LET s == bulk_save_objects(rows, {}, Batch) IN
       /\ s.err = Ok
       /\ rows' = commit(rows, pending \cup s.written)
       /\ hist' = [hist EXCEPT !.path = "bulk", !.attempted = i + Len(Batch),
                               !.committed = @ \cup s.written]
    /\ pending' = {}
    /\ inserted_count' = inserted_count + Len(Batch)
    /\ i' = i + batch_size
    /\ pc' = "for"
    /\ UNCHANGED <<today, indexes, out, employees, batch_size, k,
                   successful_in_batch, result, gen, val>>

\* bulk_save_objects raises IntegrityError: control reaches the handler with
\* the rows written so far still in the transaction
BulkSaveIntegrityError ==
    /\ pc = "batch"
    /\ LET s == bulk_save_objects(rows, {}, Batch) IN
       /\ s.err # Ok
       /\ pending' = pending \cup s.written
       /\ hist' = [hist EXCEPT !.caught = @ \cup {s.err}]
    /\ pc' = "integrity"
    /\ UNCHANGED <<today, indexes, out, rows, employees, batch_size, i, k, inserted_count,
                   successful_in_batch, result, gen, val>>

\* the store fails for another reason (connectivity): before the first row
\* is written, or once the attempt has written all it could (at the commit,
\* when no row was rejected): control reaches the outer handler
BulkSaveStoreError ==
    /\ pc = "batch"
    /\ LET s == bulk_save_objects(rows, {}, Batch) IN
       \E q \in {0, Cardinality(s.written)} :
           pending' = pending \cup FirstWritten(rows, s.written, q)
    /\ pc' = "except"
    /\ result' = [result EXCEPT !.fault = TRUE]
    /\ UNCHANGED <<today, indexes, out, rows, employees, batch_size, i, k, inserted_count,
                   successful_in_batch, hist, gen, val>>

\* except IntegrityError: session.rollback(); successful_in_batch = 0
RollbackBatch ==
    /\ pc = "integrity"
    /\ pending' = rollback(pending)
    /\ successful_in_batch' = 0
    /\ k' = 1
    /\ hist' = [hist EXCEPT !.path = "fallback"]
    /\ pc' = "fallback"
    /\ UNCHANGED <<today, indexes, out, rows, employees, batch_size, i, inserted_count,
                   result, gen, val>>

\* a fallback turn that counts the record whether or not it was committed
fallback_insert_counting_all(tbl, written, e) ==
    LET err == insert_error(tbl \cup written, e)
        row == EmployeeDB(NextId(tbl \cup written), e) IN
    IF err = Ok
    THEN [rows |-> commit(tbl, written \cup {row}), pending |-> {},
          new |-> {row}, ok |-> 1, err |-> {}]
    ELSE [rows |-> tbl, pending |-> rollback(written),
          new |-> {}, ok |-> 1, err |-> {err}]

\* one turn of "for db_emp in db_employees" on a table holding tbl, the open
\* transaction holding written: session.add(db_emp); session.commit();
\* successful_in_batch += 1; or IntegrityError: session.rollback(); continue
fallback_insert(tbl, written, e) ==
    LET err == insert_error(tbl \cup written, e)
        row == EmployeeDB(NextId(tbl \cup written), e) IN
    IF err = Ok
    THEN [rows |-> commit(tbl, written \cup {row}), pending |-> {},
          new |-> {row}, ok |-> 1, err |-> {}]
    ELSE [rows |-> tbl, pending |-> rollback(written),
          new |-> {}, ok |-> 0, err |-> {err}]

FallbackRecord ==
    /\ pc = "fallback"
    /\ k <= Len(Batch)
    /\ LET r == fallback_insert(rows, pending, Batch[k]) IN
       /\ rows' = r.rows
       /\ pending' = r.pending
       /\ successful_in_batch' = successful_in_batch + r.ok
       /\ hist' = [hist EXCEPT !.skipped = @ + (1 - r.ok),
                               !.caught = @ \cup r.err,
                               !.committed = @ \cup r.new]
    /\ k' = k + 1
    /\ UNCHANGED <<today, indexes, out, pc, employees, batch_size, i, inserted_count,
                   result, gen, val>>

\* the store fails for another reason when the record is committed, or before
\* it is written
FallbackStoreError ==
    /\ pc = "fallback"
    /\ k <= Len(Batch)
    /\ \E wrote \in BOOLEAN :
           pending' = IF wrote /\ insert_error(rows \cup pending, Batch[k]) = Ok
                      THEN pending \cup {EmployeeDB(NextId(rows \cup pending), Batch[k])}
                      ELSE pending
    /\ pc' = "except"
    /\ result' = [result EXCEPT !.fault = TRUE]
    /\ UNCHANGED <<today, indexes, out, rows, employees, batch_size, i, k, inserted_count,
                   successful_in_batch, hist, gen, val>>

\* after the fallback loop: inserted_count += successful_in_batch; then the
\* progress line and the next i
FallbackDone ==
    /\ pc = "fallback"
    /\ k > Len(Batch)
    /\ inserted_count' = inserted_count + successful_in_batch
    /\ hist' = [hist EXCEPT !.attempted = i + Len(Batch)]
    /\ i' = i + batch_size
    /\ pc' = "for"
    /\ UNCHANGED <<today, indexes, out, rows, pending, employees, batch_size, k,
                   successful_in_batch, result, gen, val>>

\* except Exception: session.rollback(); raise Exception(...)
OuterExcept ==
    /\ pc = "except"
    /\ pending' = rollback(pending)
    /\ result' = [result EXCEPT !.outcome = BulkFailed]
    /\ pc' = "done"
    /\ UNCHANGED <<today, indexes, out, rows, employees, batch_size, i, k, inserted_count,
                   successful_in_batch, hist, gen, val>>

Loader ==
    \/ ForBatch
    \/ BulkSaveCommit
    \/ BulkSaveIntegrityError
    \/ BulkSaveStoreError
    \/ RollbackBatch
    \/ FallbackRecord
    \/ FallbackStoreError
    \/ FallbackDone
    \/ OuterExcept

-----------------------------------------------------------------------------
(* The store: mode 2 and bulk loads in any order *)

Init ==
    /\ today \in Todays
    /\ rows = {}
    /\ pending = {}
    /\ pc = "idle"
    /\ employees = <<>>
    /\ batch_size = default_batch_size
    /\ i = 0
    /\ k = 0
    /\ inserted_count = 0
    /\ successful_in_batch = 0
    /\ result = NoResult
    /\ hist = NoHist
    /\ gen = GenOff
    /\ val = NoVal
    /\ indexes = create_tables
    /\ out = NoOut

\* control is back at the caller: the call's locals are gone
ReturnToCaller ==
    /\ pc = "done"
    /\ gen.pc = "off"
    /\ pc' = "idle"
    /\ employees' = <<>>
    /\ batch_size' = default_batch_size
    /\ i' = 0
    /\ k' = 0
    /\ inserted_count' = 0
    /\ successful_in_batch' = 0
    /\ result' = NoResult
    /\ hist' = NoHist
    /\ val' = NoVal
    /\ out' = NoOut
    /\ UNCHANGED <<today, indexes, rows, pending, gen>>

Mode2 == \E e \in Mode2Inputs, fault \in BOOLEAN : mode_2(e, fault)

Next ==
    \/ Mode2
    \/ CallBulkInsert
    \/ Loader
    \/ ReturnToCaller

Spec == Init /\ [][Next]_vars

-----------------------------------------------------------------------------
(* Listing, query and index (database.py), with mode 2 and the loads *)

db_type == "sqlite"

\* the dictionary both listings build for a row
Entry(x, now) ==
    [full_name |-> x.full_name, birth_date |-> strftime(x.birth_date),
     gender |-> x.gender, age |-> calculate_age(x, now)]

\* row_number() over partitions of the full_name alone
partition_by_name(x) == x.full_name

\* partition_by=[EmployeeDB.full_name, EmployeeDB.birth_date]
partition_by(x) == <<x.full_name, x.birth_date>>

\* row_num == 1: the row of the lowest id of each partition
row_num_1(tbl) ==
    {x \in tbl : \A y \in tbl : partition_by(y) = partition_by(x) => x.id <= y.id}

\* ORDER BY full_name: every order of the rows in which full_name never
\* decreases (rows of the same full_name come in any order)
order_by_full_name(S) ==
    {f \in [1..Cardinality(S) -> S] :
         /\ \A a, b \in 1..Cardinality(S) : f[a] = f[b] => a = b
         /\ \A a, b \in 1..Cardinality(S) :
                a < b => StrLE(f[a].full_name, f[b].full_name)}

\* SELECT with no ORDER BY: every order of the rows
unordered(S) ==
    {f \in [1..Cardinality(S) -> S] :
         \A a, b \in 1..Cardinality(S) : f[a] = f[b] => a = b}

\* DatabaseManager.get_all_employees_unique_sorted: the lists it can return
get_all_employees_unique_sorted(tbl, now) ==
    {[j \in 1..Len(f) |-> Entry(f[j], now)] :
         f \in order_by_full_name(row_num_1(tbl))}

\* DatabaseManager.query_male_f_surnames: the lists it can return
query_male_f_surnames(tbl, now) ==
    IF db_type = "sqlite"
    THEN {[j \in 1..Len(f) |-> Entry(f[j], now)] :
              f \in order_by_full_name(
                        {x \in tbl : /\ x.gender = "Male"
                                     /\ like(x.full_name, <<"F", "%", " ", "%">>)})}
    ELSE {[j \in 1..Len(f) |-> Entry(f[j], now)] :
              f \in unordered(
                        {x \in tbl : /\ x.gender = "Male"
                                     /\ like(x.full_name, <<"F", "%">>)})}

ReadFailed == "Exception: Error fetching"

\* a read of the table from the caller: it returns a list, or the store fails
\* and the exception goes to the caller; nothing else changes
Read(op, lists) ==
    /\ pc \in {"idle", "done"}
    /\ gen.pc = "off"
    /\ \/ \E ret \in lists : out' = [op |-> op, ret |-> ret, indexes |-> indexes]
       \/ out' = [op |-> ReadFailed, ret |-> <<>>, indexes |-> indexes]
    /\ pc' = "done"
    /\ UNCHANGED <<today, indexes, rows, pending, employees, batch_size, i, k,
                   inserted_count, successful_in_batch, result, hist, gen, val>>

GetAllEmployeesUniqueSorted ==
    Read("list", get_all_employees_unique_sorted(rows, today))

QueryMaleFSurnames ==
    Read("query", query_male_f_surnames(rows, today))

idx_employees_gender_fname == "idx_employees_gender_fname"

\* the DROP statements without the one for the index created afterwards
drop_indexes_sql_without_own ==
    {"idx_employees_gender", "idx_employees_full_name_prefix",
     "idx_employees_gender_fname_prefix", "idx_employees_composite_optimized"}

\* the names of drop_indexes_sql
drop_indexes_sql ==
    {"idx_employees_gender", "idx_employees_full_name_prefix",
     "idx_employees_gender_fname_prefix", "idx_employees_composite_optimized",
     "idx_employees_gender_fname"}

\* DROP INDEX IF EXISTS for each name
drop_indexes(idxs) == {x \in idxs : x.name \notin drop_indexes_sql}

IndexExists == "Exception: index idx_employees_gender_fname already exists"
IndexFailed == "Exception: Error creating optimization indexes"

\* CREATE INDEX idx_employees_gender_fname ON employees(gender, full_name):
\* rejected when an index of that name exists
create_index(idxs) ==
    IF \E x \in idxs : x.name = idx_employees_gender_fname
    THEN [indexes |-> idxs, outcome |-> IndexExists]
    ELSE [indexes |-> idxs \cup {Index(idx_employees_gender_fname,
                                       <<"gender", "full_name">>)},
          outcome |-> Returned]

\* DatabaseManager.create_optimization_indexes: the drops, the creation, the
\* statistics.  Each statement takes effect as it is executed.  When the
\* store fails (connectivity) the statements from some point on are not
\* executed: none, the drops only, or all but the statistics.
CreateOptimizationIndexes ==
    /\ pc = "idle"
    /\ gen.pc = "off"
    /\ LET c == create_index(drop_indexes(indexes)) IN
       \/ /\ indexes' = c.indexes
          /\ result' = Result("index", c.outcome, 0, NoEmp, rows, FALSE)
       \/ /\ indexes' \in {indexes, drop_indexes(indexes), c.indexes}
          /\ result' = Result("index", IndexFailed, 0, NoEmp, rows, TRUE)
    /\ out' = [op |-> "index", ret |-> <<>>, indexes |-> indexes]
    /\ pc' = "done"
    /\ UNCHANGED <<today, rows, pending, employees, batch_size, i, k,
                   inserted_count, successful_in_batch, hist, gen, val>>

\* the reads among creations and loads
NextQuery ==
    \/ Mode2
    \/ CallBulkInsert
    \/ Loader
    \/ ReturnToCaller
    \/ GetAllEmployeesUniqueSorted
    \/ QueryMaleFSurnames

SpecQuery == Init /\ [][NextQuery]_vars

\* the index among creations and reads
NextIndex ==
    \/ Mode2
    \/ ReturnToCaller
    \/ GetAllEmployeesUniqueSorted
    \/ QueryMaleFSurnames
    \/ CreateOptimizationIndexes

SpecIndex == Init /\ [][NextIndex]_vars

-----------------------------------------------------------------------------
(* generate_sample_data (database.py) *)

\* The name pools of data/: small ones, the surnames as (male, female) pairs,
\* those with the reserved first letter apart from the rest.
SURNAMES == {<<<<"P">>, <<"P", "a">>>>, <<<<"F">>, <<"F", "a">>>>}
MALE_NAMES == {<<"I">>}
FEMALE_NAMES == {<<"A">>}
MIDDLE_NAMES_MALE == {<<"M">>}
MIDDLE_NAMES_FEMALE == {<<"N">>}

\* the dates start_date + timedelta(days=random_days) is drawn from
BirthPool == {D1, D2}

total_main == 3              \* 1000000 in the code
target_male_f_count == 2     \* 100 in the code
guard_multiple == 3
oldest_age == 65
youngest_age == 18

startswith(s, c) == Len(s) > 0 /\ s[1] = c

\* f"{surname} {first_name} {middle_name}"
FullName(surname, first_name, middle_name) ==
    surname \o <<" ">> \o first_name \o <<" ">> \o middle_name

available_surnames == {p \in SURNAMES : ~startswith(p[1], "F")}
f_surnames == {p \in SURNAMES : startswith(p[1], "F")}

\* date.today().replace(year=...) raises on a leap day
WindowRaises ==
    \/ ReplaceRaises(today, today[1] - oldest_age)
    \/ ReplaceRaises(today, today[1] - youngest_age)

\* start_date <= d <= end_date
InWindow(d) ==
    /\ ~DateLT(d, replace_year(today, today[1] - oldest_age))
    /\ ~DateLT(replace_year(today, today[1] - youngest_age), d)

\* the records one turn of the base loop can draw when its counter is n
BaseDraws(n) ==
    IF n % 2 = 0
    THEN {Employee(FullName(p[1], f, m), d, "Male") :
              p \in available_surnames, f \in MALE_NAMES,
              m \in MIDDLE_NAMES_MALE, d \in {x \in BirthPool : InWindow(x)}}
    ELSE {Employee(FullName(p[2], f, m), d, "Female") :
              p \in available_surnames, f \in FEMALE_NAMES,
              m \in MIDDLE_NAMES_FEMALE, d \in {x \in BirthPool : InWindow(x)}}

\* the records one turn of the target loop can draw
TargetDraws ==
    {Employee(FullName(p[1], f, m), d, "Male") :
         p \in f_surnames, f \in MALE_NAMES, m \in MIDDLE_NAMES_MALE,
         d \in {x \in BirthPool : InWindow(x)}}

\* a ledger that never reports a hit
in_ledger_never(key, seen) == FALSE

\* key in seen_combinations
in_ledger(key, seen) == key \in seen

\* random.shuffle: every order of the list
Shuffles(s) ==
    {[j \in 1..Len(s) |-> s[p[j]]] :
         p \in {q \in [1..Len(s) -> 1..Len(s)] :
                    \A a, b \in 1..Len(s) : q[a] = q[b] => a = b}}

GenStart ==
    [pc |-> "base", i |-> 0, generated_count |-> 0, all_employees |-> <<>>,
     seen_combinations |-> {}, target_employees |-> <<>>, t |-> 0,
     exhausted |-> FALSE]

LoaderIdle ==
    UNCHANGED <<today, indexes, out, rows, pending, pc, employees, batch_size, i, k,
                inserted_count, successful_in_batch, result, hist, val>>

\* a loop with no guard
guard_never(n) == FALSE

\* if i > total_main * 3: break, with i = n
guard_tripped(n) == n > total_main * guard_multiple

\* one turn of "while generated_count < total_main", with the guard that ends
\* the loop and the test for F-surnames that follows the loop
BaseIteration ==
    /\ gen.pc = "base"
    /\ gen.generated_count < total_main
    /\ IF WindowRaises
       THEN gen' = [gen EXCEPT !.pc = "raised"]
       ELSE \E employee \in BaseDraws(gen.i) :
            LET fresh == ~in_ledger(Key(employee), gen.seen_combinations)
                count == gen.generated_count + (IF fresh THEN 1 ELSE 0)
                broke == guard_tripped(gen.i + 1) IN
            gen' = [gen EXCEPT
                      !.seen_combinations =
                          IF fresh THEN @ \cup {Key(employee)} ELSE @,
                      !.all_employees =
                          IF fresh THEN Append(@, employee) ELSE @,
                      !.generated_count = count,
                      !.i = @ + 1,
                      !.exhausted = broke,
                      !.pc = IF broke \/ count >= total_main
                             THEN (IF f_surnames = {} THEN "raised"
                                   ELSE "target")
                             ELSE "base"]
    /\ LoaderIdle

\* one turn of "for i in range(target_male_f_count)": the loop binds i to the
\* turn's number t; the "i -= 1" of the else branch changes i and does not
\* reach the range iterator, so a hit uses the turn up; after the last turn
\* all_employees.extend(target_employees)
TargetIteration ==
    /\ gen.pc = "target"
    /\ gen.t < target_male_f_count
    /\ IF WindowRaises
       THEN gen' = [gen EXCEPT !.pc = "raised"]
       ELSE \E employee \in TargetDraws :
            LET fresh == ~in_ledger(Key(employee), gen.seen_combinations)
                targets == IF fresh THEN Append(gen.target_employees, employee)
                           ELSE gen.target_employees
                last == gen.t + 1 >= target_male_f_count IN
            gen' = [gen EXCEPT
                      !.seen_combinations =
                          IF fresh THEN @ \cup {Key(employee)} ELSE @,
                      !.target_employees = targets,
                      !.i = IF fresh THEN gen.t ELSE gen.t - 1,
                      !.t = @ + 1,
                      !.all_employees = IF last THEN @ \o targets ELSE @,
                      !.pc = IF last THEN "shuffle" ELSE "target"]
    /\ LoaderIdle

\* random.shuffle(all_employees); self.bulk_insert_employees(all_employees)
ShuffleAndLoad ==
    /\ gen.pc = "shuffle"
    /\ \E shuffled \in Shuffles(gen.all_employees) :
           /\ gen' = [gen EXCEPT !.all_employees = shuffled, !.pc = "loading"]
           /\ bulk_insert_employees(shuffled, default_batch_size)

\* the load is over: _print_generation_stats, or the load's exception goes on
GenFinish ==
    /\ gen.pc = "loading"
    /\ pc = "done"
    /\ gen' = [gen EXCEPT !.pc = IF result.outcome = Returned THEN "done"
                                 ELSE "raised"]
    /\ LoaderIdle

\* the table before mode 4 runs: empty, or holding a row of an earlier run
SeedRows ==
    {{}, {EmployeeDB(1, Employee(FullName(<<"P">>, <<"I">>, <<"M">>), D1, "Male"))}}

InitGen ==
    /\ today \in Todays
    /\ rows \in SeedRows
    /\ pending = {}
    /\ pc = "idle"
    /\ employees = <<>>
    /\ batch_size = default_batch_size
    /\ i = 0
    /\ k = 0
    /\ inserted_count = 0
    /\ successful_in_batch = 0
    /\ result = NoResult
    /\ hist = NoHist
    /\ gen = GenStart
    /\ val = NoVal
    /\ indexes = create_tables
    /\ out = NoOut

NextGen ==
    \/ BaseIteration
    \/ TargetIteration
    \/ ShuffleAndLoad
    \/ Loader
    \/ GenFinish

SpecGen == InitGen /\ [][NextGen]_vars

\* the two drawing loops on their own, up to the shuffle
NextDraw ==
    \/ BaseIteration
    \/ TargetIteration

\* the generator is one sequential run: a turn that can be taken is taken
SpecDraw == InitGen /\ [][NextDraw]_vars /\ WF_vars(NextDraw)

-----------------------------------------------------------------------------
(* Properties of the batch loader and of single-record creation (Spec) *)

Keys(tbl) == {Key(x) : x \in tbl}

BulkDone == pc = "done" /\ result.op = "bulk"

\* the state right after a batch went through the per-record fallback
AfterFallback == pc = "for" /\ hist.path = "fallback"

\* record j of the batch can be stored: it satisfies the NOT NULL columns, its
\* key was not in the table when the batch started, and no earlier record of
\* the batch has its key
Insertable(j) ==
    /\ ~not_null_violated(hist.batch[j])
    /\ Key(hist.batch[j]) \notin Keys(hist.rows_batch)
    /\ \A j2 \in 1..(j - 1) : Key(hist.batch[j2]) # Key(hist.batch[j])

\* C4: when a batch's bulk insert is rejected, the batch is retried one record
\* at a time and no insertable record is lost: after the batch every record
\* that satisfies the NOT NULL columns, whose key was not in the table and
\* repeats no earlier record of the batch is persisted as given; every other
\* record is skipped exactly once, nothing that was in the table is lost, and
\* the loop stands at the next batch.
C4_FallbackKeepsInsertable ==
    AfterFallback =>
        /\ \A j \in 1..Len(hist.batch) :
               Insertable(j) =>
                   \E x \in rows \ hist.rows_batch :
                       /\ Key(x) = Key(hist.batch[j])
                       /\ x.gender = hist.batch[j].gender
        /\ hist.skipped = Cardinality({j \in 1..Len(hist.batch) : ~Insertable(j)})
        /\ Cardinality(rows \ hist.rows_batch) = Len(hist.batch) - hist.skipped
        /\ successful_in_batch = Len(hist.batch) - hist.skipped
        /\ hist.rows_batch \subseteq rows
        /\ i = hist.start + batch_size

\* a batch of two with one colliding record ended with one inserted and one
\* skipped, and another batch follows
C4_Witness ==
    /\ AfterFallback
    /\ Len(hist.batch) = 2
    /\ hist.skipped = 1
    /\ Cardinality(rows \ hist.rows_batch) = 1
    /\ hist.caught = {ErrUnique}
    /\ i < total_employees

\* C5: no two persisted rows share the same (full_name, birth_date) pair,
\* whatever creations and loads have run, completed or aborted.
C5_UniqueKeys ==
    \A x, y \in rows : Key(x) = Key(y) => x = y

\* a load whose input repeated a stored key has finished, and mode 2 calls came
\* before it
C5_Witness ==
    /\ BulkDone
    /\ hist.skipped > 0
    /\ ErrUnique \in hist.caught
    /\ Cardinality(rows) >= 2
    /\ \E x \in hist.rows_call : x.gender = "Female"

\* C6 (as claimed): the two IntegrityError handlers of the loader catch
\* uniqueness violations only, and once the store has failed for another
\* reason the load is on its way out with the error.
C6_OnlyUniquenessIsSwallowed ==
    /\ hist.caught \subseteq {ErrUnique}
    /\ (result.op = "bulk" /\ result.fault) =>
           \/ pc = "except"
           \/ pc = "done" /\ result.outcome = BulkFailed

\* C7 (as claimed): a call with a non-empty list and a batch size of zero or
\* less ends with an error and persists nothing.
C7_BadBatchSizeRejected ==
    (BulkDone /\ employees # <<>> /\ batch_size <= 0) =>
        /\ result.outcome = BulkFailed
        /\ rows = result.before

\* C8: every transaction of the loader is all-or-nothing.  When the fallback
\* starts nothing the failed bulk attempt wrote is left, in the table or in
\* the transaction; the fallback never runs with writes pending; a committed
\* bulk insert stored the whole batch; and when the call is over nothing is
\* pending and the table holds what it held before plus the rows of the
\* committed transactions.
C8_AllOrNothing ==
    /\ pc = "fallback" => pending = {}
    /\ (pc = "fallback" /\ k = 1) => rows = hist.rows_batch
    /\ (pc = "for" /\ hist.path = "bulk") =>
           Cardinality(rows \ hist.rows_batch) = Len(hist.batch)
    /\ pc \in {"for", "batch", "fallback"} =>
           rows = hist.rows_call \cup hist.committed
    /\ BulkDone =>
           /\ pending = {}
           /\ rows = hist.rows_call \cup hist.committed

\* the fallback starts after a bulk attempt that had written a row
C8_Witness ==
    /\ pc = "fallback"
    /\ k = 1
    /\ bulk_save_objects(rows, {}, Batch).written # {}

CreateDone ==
    /\ pc = "done"
    /\ result.op = "create"
    /\ result.outcome # ValidationError

DuplicateErrors == {DuplicateError, DuplicateErrorDb}

\* C9: create_employee for a pair already persisted fails with a duplicate
\* error and leaves the table as it was, no id handed out; for a pair not yet
\* persisted it adds exactly one row, the record as given, and returns the
\* id of that row, unless the store fails the commit, which leaves the table
\* as it was.
C9_CreateEmployee ==
    CreateDone =>
        LET e == result.emp
            existed == Key(e) \in Keys(result.before) IN
        /\ existed =>
               /\ result.outcome \in DuplicateErrors
               /\ rows = result.before
               /\ result.id = 0
        /\ (~existed /\ ~result.fault) =>
               /\ result.outcome = Returned
               /\ result.before \subseteq rows
               /\ rows \ result.before = {EmployeeDB(result.id, e)}
               /\ result.id \notin {x.id : x \in result.before}
        /\ (~existed /\ result.fault) =>
               /\ result.outcome = CreateFailed
               /\ rows = result.before

\* a creation succeeded for a name that was already stored with another date
C9_Witness ==
    /\ CreateDone
    /\ result.outcome = Returned
    /\ \E x \in result.before : x.full_name = result.emp.full_name

\* the loop stands between two batches, or the call has returned
BetweenBatches ==
    \/ pc \in {"for", "batch"}
    \/ BulkDone /\ result.outcome = Returned

\* the rows this load has added to the table
AddedByLoad == rows \ hist.rows_call

\* C15: the running inserted count of bulk_insert_employees is exact after
\* every batch and at completion: it equals the number of rows the load has
\* added to the table so far and never exceeds the number of records
\* attempted; a batch whose bulk insert committed raised it by the batch's
\* length, and a batch that went through the fallback raised it by the
\* number of records the fallback committed.
C15_InsertedCountExact ==
    /\ BetweenBatches =>
           /\ inserted_count = Cardinality(AddedByLoad)
           /\ inserted_count <= hist.attempted
           /\ hist.attempted <= Len(employees)
    /\ (pc = "for" /\ hist.path = "bulk") =>
           inserted_count =
               Cardinality(hist.rows_batch \ hist.rows_call) + Len(hist.batch)
    /\ (pc = "for" /\ hist.path = "fallback") =>
           /\ inserted_count =
                  Cardinality(hist.rows_batch \ hist.rows_call)
                      + Cardinality(rows \ hist.rows_batch)
           /\ Cardinality(rows \ hist.rows_batch) = successful_in_batch

\* a load of several batches has returned: a batch lost a record to the
\* fallback, and the count is below the number of records handed in
C15_Witness ==
    /\ BulkDone
    /\ result.outcome = Returned
    /\ hist.start > 0
    /\ ErrUnique \in hist.caught
    /\ 0 < inserted_count
    /\ inserted_count < Len(employees)
    /\ hist.attempted = Len(employees)

-----------------------------------------------------------------------------
(* Properties of the index (SpecIndex) and of the reads (SpecQuery) *)

IndexDone == pc = "done" /\ result.op = "index"

\* the indexes on (gender, full_name) or of the composite index's name
CompositeIndexes(idxs) ==
    {x \in idxs : \/ x.name = "idx_employees_gender_fname"
                  \/ x.columns = <<"gender", "full_name">>}

\* C12: create_optimization_indexes is idempotent.  There is never more than
\* one composite index; a run leaves the rows as they were; a run the store
\* does not fail returns normally, also when the index was there already; and
\* after a run that returned there is exactly one composite index, on
\* (gender, full_name) and named idx_employees_gender_fname, next to the
\* index of the uniqueness constraint, so that a run on top of an earlier one
\* leaves the indexes as it found them.
C12_IndexIdempotent ==
    /\ Cardinality(CompositeIndexes(indexes)) <= 1
    /\ IndexDone =>
           /\ rows = result.before
           /\ ~result.fault => result.outcome = Returned
           /\ result.outcome = Returned =>
                  /\ CompositeIndexes(indexes) =
                         {Index("idx_employees_gender_fname",
                                <<"gender", "full_name">>)}
                  /\ create_tables \subseteq indexes
                  /\ CompositeIndexes(out.indexes) # {} => indexes = out.indexes

\* a run on a table with rows, the index of an earlier run in place, returned
C12_Witness ==
    /\ IndexDone
    /\ result.outcome = Returned
    /\ CompositeIndexes(out.indexes) # {}
    /\ rows # {}

ListDone == out.op = "list"

Entries(ret) == {ret[j] : j \in 1..Len(ret)}

\* the load was handed three records that satisfy NOT NULL, the second a
\* duplicate of the first and the third another one, on an empty table, with
\* a batch size that makes batches
LoadedAAB ==
    /\ BulkDone
    /\ result.outcome = Returned
    /\ batch_size > 0
    /\ hist.rows_call = {}
    /\ Len(employees) = 3
    /\ \A j \in 1..3 : ~not_null_violated(employees[j])
    /\ employees[1] = employees[2]
    /\ Key(employees[3]) # Key(employees[1])

\* C13: get_all_employees_unique_sorted returns one entry for each distinct
\* persisted (full_name, birth_date) pair, each the name, date and gender of
\* a persisted row, and nothing else, the full_name never decreasing along
\* the list; and after a load of A, a duplicate of A and B into an empty
\* table, 2 rows are persisted, 1 record was skipped and the listing holds
\* exactly those 2.
C13_UniqueSortedListing ==
    ListDone =>
        /\ Len(out.ret) = Cardinality(Keys(rows))
        /\ Cardinality({<<e.full_name, e.birth_date>> : e \in Entries(out.ret)})
               = Cardinality(Keys(rows))
        /\ \A x \in rows : \E e \in Entries(out.ret) :
               /\ e.full_name = x.full_name
               /\ e.birth_date = strftime(x.birth_date)
               /\ e.gender = x.gender
        /\ \A e \in Entries(out.ret) : \E x \in rows :
               /\ e.full_name = x.full_name
               /\ e.birth_date = strftime(x.birth_date)
               /\ e.gender = x.gender
        /\ \A a, b \in 1..Len(out.ret) :
               a < b => StrLE(out.ret[a].full_name, out.ret[b].full_name)
        /\ LoadedAAB =>
               /\ Cardinality(rows) = 2
               /\ inserted_count = 2
               /\ Len(employees) - inserted_count = 1
               /\ Len(out.ret) = 2
               /\ {e.full_name : e \in Entries(out.ret)}
                      = {employees[1].full_name, employees[3].full_name}

\* the listing after the load of A, A and B returned two entries
C13_Witness ==
    /\ ListDone
    /\ LoadedAAB
    /\ Len(out.ret) = 2
    /\ out.ret[1].full_name # out.ret[2].full_name

\* the persisted rows that are Male with a full_name starting with F
MaleWithF(tbl) ==
    {x \in tbl : x.gender = "Male" /\ Len(x.full_name) > 0 /\ x.full_name[1] = "F"}

\* C14 (as claimed): query_male_f_surnames returns exactly the persisted rows
\* whose gender is Male and whose full_name starts with F, whatever follows
\* the first letter: one entry for each of them and none for any other row.
C14_QueryMaleF ==
    out.op = "query" =>
        /\ Len(out.ret) = Cardinality(MaleWithF(rows))
        /\ {<<e.full_name, e.birth_date, e.gender>> : e \in Entries(out.ret)}
               = {<<x.full_name, strftime(x.birth_date), x.gender>> :
                      x \in MaleWithF(rows)}

-----------------------------------------------------------------------------
(* Properties of generate_sample_data (SpecGen) *)

NoTwoShareKey(seq) ==
    \A a, b \in 1..Len(seq) : Key(seq[a]) = Key(seq[b]) => a = b

\* the records accepted so far: the targets are kept apart until the target
\* loop is over
Population ==
    IF gen.pc = "target" THEN gen.all_employees \o gen.target_employees
    ELSE gen.all_employees

HandedToLoader == gen.pc \in {"loading", "done", "raised"} /\ employees # <<>>

\* C1: no two generated records share the same (full_name, birth_date) pair,
\* among the base records, among the target records and between the two, and
\* the shuffled list the loader is handed holds the same records, each once.
C1_UniquePopulation ==
    /\ NoTwoShareKey(Population)
    /\ {Key(e) : e \in {Population[j] : j \in 1..Len(Population)}}
           = gen.seen_combinations
    /\ HandedToLoader =>
           /\ employees = gen.all_employees
           /\ NoTwoShareKey(employees)
           /\ Len(employees) = Cardinality(gen.seen_combinations)

\* the loader was handed a shuffled population, a target record first, after
\* a target candidate had hit the ledger and been discarded
C1_Witness ==
    /\ gen.pc = "loading"
    /\ employees = gen.all_employees
    /\ gen.generated_count = total_main
    /\ Len(gen.target_employees) = target_male_f_count - 1
    /\ startswith(employees[1].full_name, "F")
    /\ ~startswith(employees[Len(employees)].full_name, "F")

MaleF(seq) ==
    {j \in 1..Len(seq) : seq[j].gender = "Male" /\ startswith(seq[j].full_name, "F")}

\* C2 (as claimed): a generation that got through both loops without error
\* has exactly total_main base records and exactly target_male_f_count target
\* records, total_main + target_male_f_count in all, at least
\* target_male_f_count of them Male with the reserved first letter.
C2_ExactCounts ==
    gen.pc \in {"shuffle", "loading", "done"} =>
        /\ gen.generated_count = total_main
        /\ Len(gen.target_employees) = target_male_f_count
        /\ Len(gen.all_employees) = total_main + target_male_f_count
        /\ Cardinality(MaleF(gen.all_employees)) >= target_male_f_count

\* the guard ended the base loop before the requested count was reached
PoolExhausted == gen.exhausted /\ gen.generated_count < total_main

\* C3 (as claimed): once the guard of the base loop has tripped short of the
\* requested count, generation is over: nothing is handed to the loader,
\* nothing is persisted and the run does not complete normally.
C3_ExhaustionAborts ==
    PoolExhausted =>
        /\ gen.pc \notin {"loading", "done"}
        /\ pc = "idle"
        /\ employees = <<>>
        /\ rows \in SeedRows

\* both loops are over: the list is ready for the shuffle, or the run raised
DrawingOver == gen.pc \in {"shuffle", "raised"}

\* C16: generation always terminates.  In the base loop i counts the draw
\* attempts: the loop is never entered with more than 3 * total_main of them
\* made, never holds more accepted records than attempts, and is left with
\* at most 3 * total_main + 1; the target loop takes at most
\* target_male_f_count turns, one draw each; and in every run both loops
\* come to an end.
C16_GenerationTerminates ==
    /\ [](gen.pc = "base" =>
             /\ gen.i <= guard_multiple * total_main
             /\ gen.generated_count <= gen.i)
    /\ [][gen.pc = "base" => gen'.i <= guard_multiple * total_main + 1]_vars
    /\ [](gen.t <= target_male_f_count)
    /\ [][gen.pc = "target" => gen'.t = gen.t + 1 \/ gen'.pc = "raised"]_vars
    /\ <>DrawingOver

\* the base loop was ended by the guard, short of total_main records, and the
\* target loop went through all its turns
C16_Witness ==
    /\ gen.pc = "shuffle"
    /\ gen.exhausted
    /\ gen.generated_count < total_main
    /\ gen.t = target_male_f_count

-----------------------------------------------------------------------------
(* Employee.validate on its own (SpecValidate) *)

ValNames ==
    {<<>>, <<" ">>, <<" ", " ">>, <<"a">>, <<" ", "a", " ">>,
     Rep("a", MaxNameLen), Rep("a", MaxNameLen + 1), Rep(" ", MaxNameLen + 1)}

\* for each day of Todays: the day, the day after, the day 150 years before
\* or its neighbours, the day before that; and dates far from every limit
ValDates ==
    {NoDate, <<1990, 1, 1>>, <<1800, 1, 1>>,
     <<2026, 11, 3>>, <<2026, 11, 4>>, <<1876, 11, 3>>, <<1876, 11, 2>>,
     <<2024, 2, 29>>, <<2024, 3, 1>>, <<1874, 3, 1>>, <<1874, 2, 28>>}

ValGenders == {"Male", "Female", "male", "", "Other", None}

\* employee.validate() on the record at hand
Validate ==
    /\ ~val.done
    /\ val' = [val EXCEPT !.errors = validate(val.emp, today), !.done = TRUE]
    /\ UNCHANGED <<today, indexes, out, rows, pending, pc, employees, batch_size, i, k,
                   inserted_count, successful_in_batch, result, hist, gen>>

InitValidate ==
    /\ today \in Todays
    /\ rows = {}
    /\ pending = {}
    /\ pc = "idle"
    /\ employees = <<>>
    /\ batch_size = default_batch_size
    /\ i = 0
    /\ k = 0
    /\ inserted_count = 0
    /\ successful_in_batch = 0
    /\ result = NoResult
    /\ hist = NoHist
    /\ gen = GenOff
    /\ indexes = create_tables
    /\ out = NoOut
    /\ \E n \in ValNames, d \in ValDates, g \in ValGenders :
           val = [emp |-> Employee(n, d, g), errors |-> {}, done |-> FALSE]

NextValidate == Validate

SpecValidate == InitValidate /\ [][NextValidate]_vars

AllWhitespace(s) == \A j \in 1..Len(s) : s[j] = " "

\* the fields of e the claim's conditions call violated
ViolatedFields(e, now) ==
    (IF AllWhitespace(e.full_name) \/ Len(e.full_name) > 200
     THEN {"full_name"} ELSE {})
    \cup
    (IF \/ e.birth_date = NoDate
        \/ e.birth_date # NoDate /\ DateLT(now, e.birth_date)
        \/ e.birth_date # NoDate
             /\ DateLT(e.birth_date, <<now[1] - 150, now[2], now[3]>>)
     THEN {"birth_date"} ELSE {})
    \cup
    (IF e.gender \notin {"Male", "Female"} THEN {"gender"} ELSE {})

\* the field an error message names
FieldsNamed(errors) ==
    (IF errors \cap {ErrNameEmpty, ErrNameLong} # {} THEN {"full_name"} ELSE {})
    \cup
    (IF errors \cap {ErrBirthReq, ErrBirthFut, ErrBirthPast} # {}
     THEN {"birth_date"} ELSE {})
    \cup
    (IF ErrGender \in errors THEN {"gender"} ELSE {})

\* C10 (as claimed): validate() rejects a record exactly when a field violates
\* one of the listed conditions, the error names every violated field, and a
\* record that violates none is accepted.
C10_ValidateExact ==
    val.done =>
        /\ (val.errors # {}) <=> (ViolatedFields(val.emp, today) # {})
        /\ FieldsNamed(val.errors) = ViolatedFields(val.emp, today)

-----------------------------------------------------------------------------
(* Employee.calculate_age on its own (SpecAge) *)

\* an ordinary day, a leap day, the last day of February, the last and the
\* first day of a year, the first day of March
AgeTodays ==
    {<<2026, 11, 3>>, <<2024, 2, 29>>, <<2026, 2, 28>>, <<2026, 12, 31>>,
     <<2026, 1, 1>>, <<2026, 3, 1>>}

\* birthdays on, next to and far from the days of AgeTodays, in a leap year
\* and in others, and two that are not in the past
AgeBirths ==
    {<<1990, 11, 3>>, <<1990, 11, 4>>, <<1990, 11, 2>>, <<1990, 12, 3>>,
     <<2000, 2, 29>>, <<2000, 2, 28>>, <<2000, 3, 1>>, <<1991, 1, 1>>,
     <<1990, 12, 31>>, <<1991, 3, 2>>, <<2026, 11, 3>>, <<2027, 1, 1>>}

\* employee.calculate_age() on the record at hand
CalculateAge ==
    /\ out.op = "none"
    /\ out' = [op |-> "age", ret |-> <<calculate_age(val.emp, today)>>,
               indexes |-> {}]
    /\ UNCHANGED <<today, indexes, rows, pending, pc, employees, batch_size,
                   i, k, inserted_count, successful_in_batch, result, hist,
                   gen, val>>

InitAge ==
    /\ today \in AgeTodays
    /\ rows = {}
    /\ pending = {}
    /\ pc = "idle"
    /\ employees = <<>>
    /\ batch_size = default_batch_size
    /\ i = 0
    /\ k = 0
    /\ inserted_count = 0
    /\ successful_in_batch = 0
    /\ result = NoResult
    /\ hist = NoHist
    /\ gen = GenOff
    /\ indexes = create_tables
    /\ out = NoOut
    /\ \E b \in AgeBirths :
           val = [emp |-> Employee(NameP, b, "Male"), errors |-> {},
                  done |-> FALSE]

NextAge == CalculateAge

SpecAge == InitAge /\ [][NextAge]_vars

DaysIn(y, m) ==
    IF m = 2 THEN (IF IsLeap(y) THEN 29 ELSE 28)
    ELSE IF m \in {4, 6, 9, 11} THEN 30
    ELSE 31

\* the calendar day that follows d
DayAfter(d) ==
    IF d[3] < DaysIn(d[1], d[2]) THEN <<d[1], d[2], d[3] + 1>>
    ELSE IF d[2] < 12 THEN <<d[1], d[2] + 1, 1>>
    ELSE <<d[1] + 1, 1, 1>>

\* the n-th anniversary of b: the month and day of b, n years later
Anniversary(b, n) == <<b[1] + n, b[2], b[3]>>

\* the month and day of a come before those of b within a year
MonthDayBefore(a, b) == a[2] < b[2] \/ (a[2] = b[2] /\ a[3] < b[3])

AgeDone == out.op = "age"

\* C11: calculate_age returns the number of full years between the birth
\* date and today.  When today is the N-th anniversary of the birth date it
\* returns N; when today is the day before the N-th anniversary it returns
\* N-1; the difference of the years is lowered by one exactly when today's
\* month and day come before those of the birth date; and the age's
\* anniversary is not after today while the next one is.
C11_AgeInFullYears ==
    AgeDone =>
        LET b == val.emp.birth_date
            age == out.ret[1] IN
        /\ \A n \in 0..MaxAgeYears :
               /\ today = Anniversary(b, n) => age = n
               /\ DayAfter(today) = Anniversary(b, n) => age = n - 1
        /\ age = (today[1] - b[1]) - (IF MonthDayBefore(today, b) THEN 1 ELSE 0)
        /\ ~DateLT(today, Anniversary(b, age))
        /\ DateLT(today, Anniversary(b, age + 1))

\* today is the day before a birthday, in the same year or on 31 December,
\* and the age returned is one less than the anniversary's number
C11_Witness ==
    /\ AgeDone
    /\ \E n \in 1..MaxAgeYears :
           /\ DayAfter(today) = Anniversary(val.emp.birth_date, n)
           /\ out.ret[1] = n - 1
           /\ today[1] = val.emp.birth_date[1] + n

====
